---- MODULE Spec2Model ----
(***************************************************************************)
(* Model of the AI-CFO financial scenario engine (MockDataEngine) and of   *)
(* the callers that drive it.                                              *)
(*                                                                         *)
(* JavaScript numbers are modelled as exact fractions n/d in lowest terms  *)
(* with d > 0.  The three non-finite values an IEEE division can produce   *)
(* are kept as well: 1/0 is Infinity, -1/0 is -Infinity and 0/0 is NaN.    *)
(***************************************************************************)
EXTENDS Integers, Sequences, FiniteSets, TLC

----------------------------------------------------------------------------
(* Numbers *)

Abs(x) == IF x < 0 THEN -x ELSE x

Sign(x) == IF x < 0 THEN -1 ELSE IF x > 0 THEN 1 ELSE 0

RECURSIVE GCD(_, _)
GCD(a, b) == IF b = 0 THEN a ELSE GCD(b, a % b)

\* n/d in canonical form; d = 0 gives Infinity, -Infinity or NaN by the sign of n
Frac(n, d) ==
    IF d = 0 THEN [n |-> Sign(n), d |-> 0]
    ELSE LET g == GCD(Abs(n), Abs(d))
             s == Sign(d)
         IN  [n |-> (s * n) \div g, d |-> (s * d) \div g]

R(i) == [n |-> i, d |-> 1]

NaN == [n |-> 0, d |-> 0]
Infinity == [n |-> 1, d |-> 0]
NegInfinity == [n |-> -1, d |-> 0]

IsFinite(x) == x.d # 0
IsNaN(x) == x.d = 0 /\ x.n = 0

\* a + b
RAdd(a, b) ==
    IF IsFinite(a) /\ IsFinite(b) THEN Frac(a.n * b.d + b.n * a.d, a.d * b.d)
    ELSE IF IsNaN(a) \/ IsNaN(b) THEN NaN
    ELSE IF IsFinite(a) THEN b
    ELSE IF IsFinite(b) THEN a
    ELSE IF a.n = b.n THEN a ELSE NaN

RNeg(a) == [n |-> -a.n, d |-> a.d]

\* a - b
RSub(a, b) == RAdd(a, RNeg(b))

\* a * b
RMul(a, b) == Frac(a.n * b.n, a.d * b.d)

\* a / b: x/0 is +-Infinity by the sign of x, 0/0 is NaN, x/Infinity is 0
RDiv(a, b) ==
    LET s == IF b.n < 0 THEN -1 ELSE 1
    IN  Frac(a.n * b.d * s, a.d * b.n * s)

\* a < b; false whenever an operand is NaN
RLt(a, b) ==
    IF IsNaN(a) \/ IsNaN(b) THEN FALSE
    ELSE IF ~IsFinite(a) /\ ~IsFinite(b) THEN a.n < b.n
    ELSE a.n * b.d < b.n * a.d

RGt(a, b) == RLt(b, a)
RLe(a, b) == ~IsNaN(a) /\ ~IsNaN(b) /\ ~RLt(b, a)
RGe(a, b) == RLe(b, a)

\* Math.max, Math.min, Math.abs, Math.round
MathMax(a, b) == IF IsNaN(a) \/ IsNaN(b) THEN NaN ELSE IF RLt(a, b) THEN b ELSE a
MathMin(a, b) == IF IsNaN(a) \/ IsNaN(b) THEN NaN ELSE IF RLt(b, a) THEN b ELSE a
MathAbs(a) == [n |-> Abs(a.n), d |-> a.d]
\* Math.round rounds halves towards +Infinity: floor(x + 1/2)
MathRound(a) == IF IsFinite(a) THEN R((2 * a.n + a.d) \div (2 * a.d)) ELSE a

----------------------------------------------------------------------------
(* The engine: baseline data and the what-if projection *)

BASE_FINANCIALS ==
    [ mrr      |-> R(45000),
      burn     |-> R(85000),
      runway   |-> Frac(62, 10),
      cash     |-> R(527000),
      expenses |-> [ engineering |-> R(45000),
                     marketing   |-> R(18000),
                     sales       |-> R(12000),
                     operations  |-> R(7000),
                     aws         |-> R(3000) ],
      growth   |-> Frac(125, 10),
      revenue  |-> R(45000) ]

ZeroParams == [spendChange |-> 0, hiringRate |-> 0, revenueGrowth |-> 0]

\* Object.values(expenses).reduce((a, b) => a + b, 0), in key order
SumExpenses(e) ==
    RAdd(RAdd(RAdd(RAdd(RAdd(R(0), e.engineering), e.marketing), e.sales),
              e.operations), e.aws)

\* Runway without the burn-sign branch and the clamp
Runway_NoGuard(cash, newBurn) == RDiv(cash, newBurn)

\* newRunway, then the Math.max(0, newRunway) of the returned object
Runway(cash, newBurn) ==
    MathMax(R(0), IF RGt(newBurn, R(0)) THEN RDiv(cash, newBurn) ELSE R(99))

\* Variants of the projection: spend scaled by 1 + sign * spendChange / 100,
\* aws by 1 + spendChange / awsDivisor, sales given salesShare of the hiring impact
ProjectVariant(base, params, sign, awsDivisor, salesShare) ==
    LET spendMultiplier   == RAdd(R(1), RDiv(R(sign * params.spendChange), R(100)))
        hiringImpact      == RMul(R(params.hiringRate), R(15000))
        revenueMultiplier == RAdd(R(1), RDiv(R(params.revenueGrowth), R(100)))
        newExpenses ==
            [ engineering |-> RAdd(RMul(base.expenses.engineering, spendMultiplier),
                                   RMul(hiringImpact, Frac(6, 10))),
              marketing   |-> RMul(base.expenses.marketing, spendMultiplier),
              sales       |-> RAdd(RMul(base.expenses.sales, spendMultiplier),
                                   RMul(hiringImpact, salesShare)),
              operations  |-> RAdd(RMul(base.expenses.operations, spendMultiplier),
                                   RMul(hiringImpact, Frac(1, 10))),
              aws         |-> RMul(base.expenses.aws,
                                   RAdd(R(1), RDiv(R(params.spendChange), R(awsDivisor)))) ]
        newRevenue == RMul(base.revenue, revenueMultiplier)
        newBurn    == RSub(SumExpenses(newExpenses), newRevenue)
    IN  [ mrr      |-> newRevenue,
          burn     |-> newBurn,
          runway   |-> Runway(base.cash, newBurn),
          cash     |-> base.cash,
          expenses |-> newExpenses,
          growth   |-> RAdd(base.growth, RMul(R(params.revenueGrowth), Frac(4, 10))),
          revenue  |-> newRevenue ]

\* Project scaling aws with the full spend change
Project_AwsFullSensitivity(base, params) == ProjectVariant(base, params, 1, 100, Frac(3, 10))

\* Project treating a spend increase as a decrease
Project_SpendInverted(base, params) == ProjectVariant(base, params, -1, 200, Frac(3, 10))

\* Project giving sales 40% of the hiring impact
Project_SalesShare(base, params) == ProjectVariant(base, params, 1, 200, Frac(4, 10))

\* The snapshot applyWhatIf builds from the stored baseline and params
Project(base, params) ==
    LET spendMultiplier   == RAdd(R(1), RDiv(R(params.spendChange), R(100)))
        hiringImpact      == RMul(R(params.hiringRate), R(15000))
        revenueMultiplier == RAdd(R(1), RDiv(R(params.revenueGrowth), R(100)))
        newExpenses ==
            [ engineering |-> RAdd(RMul(base.expenses.engineering, spendMultiplier),
                                   RMul(hiringImpact, Frac(6, 10))),
              marketing   |-> RMul(base.expenses.marketing, spendMultiplier),
              sales       |-> RAdd(RMul(base.expenses.sales, spendMultiplier),
                                   RMul(hiringImpact, Frac(3, 10))),
              operations  |-> RAdd(RMul(base.expenses.operations, spendMultiplier),
                                   RMul(hiringImpact, Frac(1, 10))),
              aws         |-> RMul(base.expenses.aws,
                                   RAdd(R(1), RDiv(R(params.spendChange), R(200)))) ]
        newTotalExpenses == SumExpenses(newExpenses)
        newRevenue       == RMul(base.revenue, revenueMultiplier)
        newBurn          == RSub(newTotalExpenses, newRevenue)
        newGrowth        == RAdd(base.growth, RMul(R(params.revenueGrowth), Frac(4, 10)))
    IN  [ mrr      |-> newRevenue,
          burn     |-> newBurn,
          runway   |-> Runway(base.cash, newBurn),
          cash     |-> base.cash,
          expenses |-> newExpenses,
          growth   |-> newGrowth,
          revenue  |-> newRevenue ]

\* applyWhatIf adding the retained spend change to the new one
applyWhatIf_Cumulative(self, params) ==
    [ self    |-> [baseData |-> self.baseData, currentParams |-> params],
      ret     |-> Project(self.baseData,
                          [params EXCEPT !.spendChange = @ + self.currentParams.spendChange]),
      applied |-> <<params>> ]

\* applyWhatIf writing the projected expenses back into the stored baseline
applyWhatIf_WritesBase(self, params) ==
    [ self    |-> [baseData |-> [self.baseData EXCEPT
                                    !.expenses = Project(self.baseData, params).expenses],
                   currentParams |-> params],
      ret     |-> Project(self.baseData, params),
      applied |-> <<params>> ]

\* applyWhatIf(params) on the engine self = [baseData, currentParams]:
\* the engine after the call and the value returned
\* (applied lists the parameters of the applyWhatIf calls made, in order)
applyWhatIf(self, params) ==
    [ self    |-> [baseData |-> self.baseData, currentParams |-> params],
      ret     |-> Project(self.baseData, params),
      applied |-> <<params>> ]

\* getCurrentFinancials without the all-zero shortcut
getCurrentFinancials_AlwaysProject(self) == applyWhatIf(self, self.currentParams)

\* getCurrentFinancials()
getCurrentFinancials(self) ==
    IF /\ self.currentParams.spendChange = 0
       /\ self.currentParams.hiringRate = 0
       /\ self.currentParams.revenueGrowth = 0
    THEN [self |-> self, ret |-> self.baseData, applied |-> <<>>]
    ELSE applyWhatIf(self, self.currentParams)

----------------------------------------------------------------------------
(* calculateCreditScore *)

weights ==
    [ revenueGrowth      |-> Frac(25, 100),
      burnStability      |-> Frac(15, 100),
      cashRunway         |-> Frac(20, 100),
      debtRatio          |-> Frac(10, 100),
      paymentReliability |-> Frac(10, 100),
      profitabilityIndex |-> Frac(10, 100),
      liquidityIndex     |-> Frac(10, 100) ]

FactorNames ==
    << "revenueGrowth", "burnStability", "cashRunway", "debtRatio",
       "paymentReliability", "profitabilityIndex", "liquidityIndex" >>

liquidityIndex(financials) ==
    MathMin(R(1), RDiv(financials.cash, RMul(financials.burn, R(3))))

profitabilityIndex(financials) ==
    MathMax(R(0), RSub(R(1), RDiv(financials.burn, financials.revenue)))

\* Variants of the factors: burn stability measured as deviation(burn - reference)
\* relative to reference
FactorsVariant(financials, reference, signedDeviation) ==
    LET deviation == RSub(financials.burn, reference)
    IN  [ revenueGrowth      |-> MathMin(R(1), RDiv(financials.growth, R(30))),
          burnStability      |->
              MathMax(R(0), RSub(R(1), RDiv(IF signedDeviation THEN deviation
                                            ELSE MathAbs(deviation), reference))),
          cashRunway         |-> MathMin(R(1), RDiv(financials.runway, R(12))),
          debtRatio          |-> Frac(85, 100),
          paymentReliability |-> Frac(92, 100),
          profitabilityIndex |-> profitabilityIndex(financials),
          liquidityIndex     |-> liquidityIndex(financials) ]

\* Factors measuring burn stability against expenses - revenue of the baseline
Factors_NetBurnReference(financials) ==
    FactorsVariant(financials,
                   RSub(SumExpenses(BASE_FINANCIALS.expenses), BASE_FINANCIALS.revenue),
                   FALSE)

\* Factors penalising only burn above the baseline
Factors_SignedDeviation(financials) ==
    FactorsVariant(financials, BASE_FINANCIALS.burn, TRUE)

\* The seven factors before weighting
Factors(financials) ==
    [ revenueGrowth      |-> MathMin(R(1), RDiv(financials.growth, R(30))),
      burnStability      |->
          MathMax(R(0), RSub(R(1), RDiv(MathAbs(RSub(financials.burn, BASE_FINANCIALS.burn)),
                                        BASE_FINANCIALS.burn))),
      cashRunway         |-> MathMin(R(1), RDiv(financials.runway, R(12))),
      debtRatio          |-> Frac(85, 100),
      paymentReliability |-> Frac(92, 100),
      profitabilityIndex |-> profitabilityIndex(financials),
      liquidityIndex     |-> liquidityIndex(financials) ]

\* breakdown: Math.round(factor * 1000 * weight) for each factor
Breakdown(f) ==
    [ k \in DOMAIN f |-> MathRound(RMul(RMul(f[k], R(1000)), weights[k])) ]

\* 1000 * factor * weight of the i-th factor, as one fraction
Term(f, i) == RMul(R(1000), RMul(f[FactorNames[i]], weights[FactorNames[i]]))

RECURSIVE SumWhole(_, _)
\* sum of the integer parts floor(Term) of the first i terms
SumWhole(f, i) ==
    IF i = 0 THEN 0 ELSE SumWhole(f, i - 1) + (Term(f, i).n \div Term(f, i).d)

RECURSIVE SumPartLo(_, _)
\* sum of the fractional parts of the first i terms, in thousandths, rounded down
SumPartLo(f, i) ==
    IF i = 0 THEN 0
    ELSE SumPartLo(f, i - 1) + (((Term(f, i).n % Term(f, i).d) * 1000) \div Term(f, i).d)

RECURSIVE Inexact(_, _)
\* how many of the first i fractional parts were rounded down by SumPartLo
Inexact(f, i) ==
    IF i = 0 THEN 0
    ELSE Inexact(f, i - 1)
         + (IF ((Term(f, i).n % Term(f, i).d) * 1000) % Term(f, i).d = 0 THEN 0 ELSE 1)

RECURSIVE SumNonFinite(_, _)
\* the sum of the first i terms when some term is not finite: finite terms do not
\* change an infinite or NaN sum
SumNonFinite(f, i) ==
    IF i = 0 THEN R(0)
    ELSE RAdd(SumNonFinite(f, i - 1),
              IF IsFinite(f[FactorNames[i]]) THEN R(0) ELSE f[FactorNames[i]])

\* Math.round(1000 * (sum of factor * weight)).  The exact sum of the seven
\* fractions lies between whole + lo/1000 and whole + (lo + inexact)/1000; every
\* integer the rounding of a value in that interval can give is a possible score
\* (one value, unless the sum is within 0.007 of a half).
Scores(f) ==
    IF \E i \in 1..7 : ~IsFinite(f[FactorNames[i]])
    THEN { MathRound(RMul(R(1000), SumNonFinite(f, 7))) }
    ELSE LET whole == SumWhole(f, 7)
             lo    == SumPartLo(f, 7)
             hi    == lo + Inexact(f, 7)
         IN  { R(whole + s) : s \in ((lo + 500) \div 1000)..((hi + 500) \div 1000) }

\* calculateCreditScore(financials): the results it can return
calculateCreditScore(financials) ==
    LET f == Factors(financials)
    IN  { [score |-> s, breakdown |-> Breakdown(f)] : s \in Scores(f) }

----------------------------------------------------------------------------
(* getFundingReadiness *)

GrowthRateScore(financials) ==
    MathRound(MathMin(R(100), RMul(RDiv(financials.growth, R(20)), R(100))))

CashRunwayScore(financials) ==
    MathRound(RMul(RDiv(financials.runway, R(12)), R(100)))
\* ReadinessFactors with the two-level status of the growth factor for the runway
ReadinessFactors_NoCritical(financials) ==
    << [ name |-> "Valuation Multiple", score |-> R(72), status |-> "good" ],
       [ name |-> "Growth Rate", score |-> GrowthRateScore(financials),
         status |-> IF RGt(financials.growth, R(15)) THEN "good" ELSE "warning" ],
       [ name |-> "Compliance & Audit", score |-> R(95), status |-> "good" ],
       [ name |-> "Team Scale", score |-> R(68), status |-> "warning" ],
       [ name |-> "Cash Runway", score |-> CashRunwayScore(financials),
         status |-> IF RGt(financials.runway, R(9)) THEN "good" ELSE "warning" ] >>

ReadinessFactors(financials) ==
    << [ name |-> "Valuation Multiple", score |-> R(72), status |-> "good" ],
       [ name |-> "Growth Rate", score |-> GrowthRateScore(financials),
         status |-> IF RGt(financials.growth, R(15)) THEN "good" ELSE "warning" ],
       [ name |-> "Compliance & Audit", score |-> R(95), status |-> "good" ],
       [ name |-> "Team Scale", score |-> R(68), status |-> "warning" ],
       [ name |-> "Cash Runway", score |-> CashRunwayScore(financials),
         status |-> IF RGt(financials.runway, R(9)) THEN "good"
                    ELSE IF RGt(financials.runway, R(6)) THEN "warning"
                    ELSE "critical" ] >>

RECURSIVE SumScores(_, _)
\* factors.reduce((sum, f) => sum + f.score, 0) over the first i factors
SumScores(factors, i) ==
    IF i = 0 THEN R(0) ELSE RAdd(SumScores(factors, i - 1), factors[i].score)

\* Recommendation with the delay band including 70
Recommendation_DelayAt70(avgScore) ==
    IF RLe(avgScore, R(70)) THEN "Delay raise by 2 months for better multiple."
    ELSE IF RGt(avgScore, R(85)) THEN "Strong position - raise at premium valuation."
    ELSE "Ready to raise now."

Recommendation(avgScore) ==
    IF RLt(avgScore, R(70)) THEN "Delay raise by 2 months for better multiple."
    ELSE IF RGt(avgScore, R(85)) THEN "Strong position - raise at premium valuation."
    ELSE "Ready to raise now."

\* getFundingReadiness truncating the mean instead of rounding it
getFundingReadiness_TruncatedMean(financials) ==
    LET factors  == ReadinessFactors(financials)
        total    == SumScores(factors, Len(factors))
        avgScore == R(total.n \div Len(factors))
    IN  [ score |-> avgScore, factors |-> factors,
          recommendation |-> Recommendation(avgScore) ]

getFundingReadiness(financials) ==
    LET factors  == ReadinessFactors(financials)
        avgScore == MathRound(RDiv(SumScores(factors, Len(factors)), R(Len(factors))))
    IN  [ score |-> avgScore, factors |-> factors,
          recommendation |-> Recommendation(avgScore) ]

----------------------------------------------------------------------------
(* generateMockResponse *)

\* A query is modelled by the set of keywords its lower-cased text contains
Keywords ==
    { "investor", "one-pager", "double", "r&d", "runway", "cash", "aws", "cost",
      "transaction", "csv" }

\* The branch of generateMockResponse a query takes
Branch(query) ==
    IF "investor" \in query \/ "one-pager" \in query THEN "investor"
    ELSE IF "double" \in query /\ "r&d" \in query THEN "doubleRnD"
    ELSE IF "runway" \in query \/ "cash" \in query THEN "runway"
    ELSE IF "aws" \in query \/ "cost" \in query THEN "aws"
    ELSE IF "transaction" \in query \/ "csv" \in query THEN "transaction"
    ELSE "default"

\* generateMockResponse(query, financials): the engine after the call and the
\* response; the double-R&D branch calls applyWhatIf with spendChange 100
generateMockResponse(self, query, financials) ==
    IF Branch(query) = "doubleRnD"
    THEN LET call == applyWhatIf(self, [self.currentParams EXCEPT !.spendChange = 100])
             impact == call.ret
         IN  [ self |-> call.self,
               applied |-> call.applied,
               ret  |-> [ branch |-> "doubleRnD",
                          burnIncreasePct |->
                              MathRound(RMul(RDiv(RSub(impact.burn, financials.burn),
                                                  financials.burn), R(100))),
                          runway |-> impact.runway ] ]
    ELSE [ self |-> self,
           applied |-> <<>>,
           ret  |-> [ branch |-> Branch(query), burnIncreasePct |-> R(0),
                      runway |-> financials.runway ] ]

----------------------------------------------------------------------------
(* getAgents *)

AgentIds == {"accounting", "fpna", "treasury", "audit", "strategist"}

\* Progress is kept in steps of 1/ProgressSteps of a point
ProgressSteps == 1

Points(n) == n * ProgressSteps

\* getAgents(): status and progress of the five agents
getAgents ==
    [ id \in AgentIds |->
        CASE id = "accounting" -> [ status |-> "active",   progress |-> Points(72) ]
          [] id = "fpna"       -> [ status |-> "thinking", progress |-> Points(85) ]
          [] id = "treasury"   -> [ status |-> "active",   progress |-> Points(94) ]
          [] id = "audit"      -> [ status |-> "idle",     progress |-> Points(100) ]
          [] id = "strategist" -> [ status |-> "thinking", progress |-> Points(67) ] ]

----------------------------------------------------------------------------
(* Callers: the inputs they can pass *)

\* Ranges of the three what-if sliders
SpendChangeMin == -50
SpendChangeMax == 100
HiringRateMin == 0
HiringRateMax == 10
RevenueGrowthMin == -20
RevenueGrowthMax == 50

\* The parameter values tried: the slider ends, zero, values that make burn or
\* revenue zero or negative, and the hiring rates up to MaxHiring
MaxHiring == 1

SpendChanges == {-150, SpendChangeMin, -40, 0, SpendChangeMax}
HiringRates == {-1, HiringRateMax} \cup (HiringRateMin..MaxHiring)
RevenueGrowths == {-100, RevenueGrowthMin, -3, 0, 48, RevenueGrowthMax}

Params ==
    [spendChange : SpendChanges, hiringRate : HiringRates, revenueGrowth : RevenueGrowths]

InSliderRange(p) ==
    /\ p.spendChange \in SpendChangeMin..SpendChangeMax
    /\ p.hiringRate \in HiringRateMin..HiringRateMax
    /\ p.revenueGrowth \in RevenueGrowthMin..RevenueGrowthMax

\* Queries containing at most MaxKeywords of the keywords
MaxKeywords == 2
Queries == { q \in SUBSET Keywords : Cardinality(q) <= MaxKeywords }

----------------------------------------------------------------------------
(* State *)

VARIABLES
    baseData,       \* MockDataEngine.baseData
    currentParams,  \* MockDataEngine.currentParams
    financials,     \* the snapshot the caller holds (App's financials state)
    lastOp,         \* the engine method called last
    arg,            \* its argument
    ret,            \* what it returned
    lastApplied,    \* <<p>> for the parameters p of the latest applyWhatIf call
                    \* (direct or nested), <<>> before any
    fresh           \* whether the engine was as constructed when the last call began

\* State of the App component (chat and what-if modal)
VARIABLES
    whatIfParams,   \* App's whatIfParams state
    showWhatIf,     \* App's showWhatIf state: the what-if modal is mounted
    messages,       \* App's messages state
    timers,         \* pending setTimeout callbacks of handleSendMessage, oldest first
    now,            \* Date.now(), in ms since the page was loaded
    renderPending,  \* a state update has been queued and the App has not re-rendered
    effectDue,      \* whatIfParams changed in the last render and its effect has not run
    passed          \* <<f>> when the step just taken was a reply timer passing the
                    \* snapshot f to generateMockResponse, <<>> otherwise

\* State of the AgentOverlay component
VARIABLES
    agents,         \* AgentOverlay's agents state
    paused,         \* AgentOverlay's paused state
    intervals,      \* number of setInterval timers that have not been cleared
    pausedEffectDue \* paused changed (or the overlay mounted) and its effect has not run

engineVars == <<baseData, currentParams, financials, lastOp, arg, ret, lastApplied, fresh>>
appVars ==
    <<whatIfParams, showWhatIf, messages, timers, now, renderPending, effectDue, passed>>
overlayVars == <<agents, paused, intervals, pausedEffectDue>>

vars == <<engineVars, appVars, overlayVars>>

Self == [baseData |-> baseData, currentParams |-> currentParams]

\* new MockDataEngine()
NewEngine == [baseData |-> BASE_FINANCIALS, currentParams |-> ZeroParams]

LastOf(applied, before) ==
    IF Len(applied) = 0 THEN before ELSE <<applied[Len(applied)]>>

\* The App before its first effect runs: useState initial values
AppMounted ==
    /\ whatIfParams = ZeroParams
    /\ showWhatIf = FALSE
    /\ messages = <<>>
    /\ timers = <<>>
    /\ now = 0
    /\ renderPending = FALSE
    /\ effectDue = TRUE
    /\ passed = <<>>

\* The AgentOverlay before its first effect runs: useState initial values
OverlayMounted ==
    /\ agents = getAgents
    /\ paused = FALSE
    /\ intervals = 0
    /\ pausedEffectDue = TRUE

Init ==
    /\ AppMounted
    /\ OverlayMounted
    /\ baseData = NewEngine.baseData
    /\ currentParams = NewEngine.currentParams
    /\ financials = getCurrentFinancials(NewEngine).ret
    /\ lastOp = "getCurrentFinancials"
    /\ arg = <<>>
    /\ ret = getCurrentFinancials(NewEngine).ret
    /\ lastApplied = <<>>
    /\ fresh = TRUE

\* A caller applies params and keeps the snapshot
ApplyWhatIf(p) ==
    \E r \in {applyWhatIf(Self, p)} :
        /\ baseData' = r.self.baseData
        /\ currentParams' = r.self.currentParams
        /\ financials' = r.ret
        /\ lastOp' = "applyWhatIf"
        /\ arg' = p
        /\ ret' = r.ret
        /\ lastApplied' = LastOf(r.applied, lastApplied)
        /\ fresh' = (Self = NewEngine)
        /\ UNCHANGED <<appVars, overlayVars>>

\* A caller asks for the current snapshot and keeps it
GetCurrentFinancials ==
    \E r \in {getCurrentFinancials(Self)} :
        /\ baseData' = r.self.baseData
        /\ currentParams' = r.self.currentParams
        /\ financials' = r.ret
        /\ lastOp' = "getCurrentFinancials"
        /\ arg' = <<>>
        /\ ret' = r.ret
        /\ lastApplied' = LastOf(r.applied, lastApplied)
        /\ fresh' = (Self = NewEngine)
        /\ UNCHANGED <<appVars, overlayVars>>

\* A caller scores the snapshot it holds
CalculateCreditScore ==
    /\ ret' \in calculateCreditScore(financials)
    /\ lastOp' = "calculateCreditScore"
    /\ arg' = financials
    /\ fresh' = (Self = NewEngine)
    /\ UNCHANGED <<baseData, currentParams, financials, lastApplied>>
    /\ UNCHANGED <<appVars, overlayVars>>

\* A caller assesses the snapshot it holds
GetFundingReadiness ==
    /\ ret' = getFundingReadiness(financials)
    /\ lastOp' = "getFundingReadiness"
    /\ arg' = financials
    /\ fresh' = (Self = NewEngine)
    /\ UNCHANGED <<baseData, currentParams, financials, lastApplied>>
    /\ UNCHANGED <<appVars, overlayVars>>

\* A chat reply is generated for query from the snapshot the caller holds
GenerateMockResponse(query) ==
    \E r \in {generateMockResponse(Self, query, financials)} :
        /\ baseData' = r.self.baseData
        /\ currentParams' = r.self.currentParams
        /\ lastOp' = "generateMockResponse"
        /\ arg' = Branch(query)
        /\ ret' = r.ret
        /\ lastApplied' = LastOf(r.applied, lastApplied)
        /\ fresh' = (Self = NewEngine)
        /\ UNCHANGED financials
        /\ UNCHANGED <<appVars, overlayVars>>

Next ==
    \/ \E p \in Params : ApplyWhatIf(p)
    \/ GetCurrentFinancials
    \/ CalculateCreditScore
    \/ GetFundingReadiness
    \/ \E query \in Queries : GenerateMockResponse(query)

Spec == Init /\ [][Next]_vars

\* Slider positions in steps of five points of spend change, with and without
\* a hire, at the ends and near the middle of the revenue growth slider
SliderParams ==
    [ spendChange   : { sc \in SpendChangeMin..SpendChangeMax : sc % 5 = 0 },
      hiringRate    : { HiringRateMin, HiringRateMin + 1 },
      revenueGrowth : { RevenueGrowthMin, -5, 0, RevenueGrowthMax } ]

\* The what-if sliders alone drive the engine
SliderNext == \E p \in SliderParams : ApplyWhatIf(p)

SliderSpec == Init /\ [][SliderNext]_vars

----------------------------------------------------------------------------
(* App: what-if modal and chat *)

\* A text is a sequence of tokens: " " is white space, any other token a word
RECURSIVE trimStart(_)
trimStart(text) ==
    IF text # <<>> /\ Head(text) = " " THEN trimStart(Tail(text)) ELSE text

RECURSIVE trimEnd(_)
trimEnd(text) ==
    IF text # <<>> /\ text[Len(text)] = " "
    THEN trimEnd(SubSeq(text, 1, Len(text) - 1))
    ELSE text

\* String.prototype.trim
trim(text) == trimEnd(trimStart(text))

\* The keywords a text includes
Includes(text) == { text[i] : i \in DOMAIN text } \cap Keywords

\* Texts typed into the chat box
ChatInputs == { <<>>, <<" ">>, <<"runway">>, <<" ", "double", "r&d", " ">> }

\* Slider positions the user moves to
SliderMoves == { <<"spendChange", SpendChangeMin>> }

\* At most MaxSends chat messages are sent
MaxSends == 2

\* The delay of the reply timer, in ms
Delay == 800

\* The instants at which something happens: within a millisecond of a send
\* or of a timer becoming due
Instants == { k * Delay + j : k \in 0..2, j \in 0..1 }

UserMessages == SelectSeq(messages, LAMBDA m : m.role = "user")
AssistantMessages == SelectSeq(messages, LAMBDA m : m.role = "assistant")

\* No render or effect of the App is outstanding
Settled == ~renderPending /\ ~effectDue

\* The App re-renders; a mounted WhatIfModal calls applyWhatIf with zero
\* parameters while rendering
Render ==
    /\ renderPending
    /\ renderPending' = FALSE
    /\ IF showWhatIf
       THEN \E r \in {applyWhatIf(Self, ZeroParams)} :
                /\ baseData' = r.self.baseData
                /\ currentParams' = r.self.currentParams
       ELSE UNCHANGED <<baseData, currentParams>>
    /\ UNCHANGED <<financials, lastOp, arg, ret, lastApplied, fresh>>
    /\ UNCHANGED <<whatIfParams, showWhatIf, messages, timers, now, effectDue>>
    /\ passed' = <<>>
    /\ UNCHANGED overlayVars

\* useEffect([whatIfParams]): runs after the render that saw new whatIfParams
Effect ==
    /\ effectDue
    /\ ~renderPending
    /\ \E r \in {applyWhatIf(Self, whatIfParams)} :
           /\ baseData' = r.self.baseData
           /\ currentParams' = r.self.currentParams
           /\ financials' = r.ret
    /\ effectDue' = FALSE
    /\ renderPending' = TRUE
    /\ UNCHANGED <<lastOp, arg, ret, lastApplied, fresh>>
    /\ UNCHANGED <<whatIfParams, showWhatIf, messages, timers, now>>
    /\ passed' = <<>>
    /\ UNCHANGED overlayVars

\* handleModeSelect('whatif') opens the modal, its onClose closes it. The render
\* and the effects of one user event are flushed before the next is handled.
ToggleWhatIf ==
    /\ Settled
    /\ showWhatIf' = ~showWhatIf
    /\ renderPending' = TRUE
    /\ UNCHANGED engineVars
    /\ UNCHANGED <<whatIfParams, messages, timers, now, effectDue>>
    /\ passed' = <<>>
    /\ UNCHANGED overlayVars

\* onParamsChange(params): setWhatIfParams with a new object
SetWhatIfParams(params) ==
    /\ Settled
    /\ showWhatIf
    /\ whatIfParams' = params
    /\ renderPending' = TRUE
    /\ effectDue' = TRUE
    /\ UNCHANGED engineVars
    /\ UNCHANGED <<showWhatIf, messages, timers, now>>
    /\ passed' = <<>>
    /\ UNCHANGED overlayVars

\* WhatIfModal.handleChange(field, value)
HandleChange ==
    \E move \in SliderMoves :
        SetWhatIfParams([whatIfParams EXCEPT ![move[1]] = move[2]])

\* The Reset to Baseline button
ResetToBaseline == SetWhatIfParams(ZeroParams)

\* handleSendMessage(content): the user message is appended and the reply timer
\* set; the timer's closure holds content and the financials of this render.
\* no numbers the sends, and sentWith records the snapshot the App holds at the
\* send; neither is read by the App.
handleSendMessage(content) ==
    /\ messages' = Append(messages, [ id |-> now, role |-> "user", content |-> content,
                                      no |-> Len(UserMessages) + 1 ])
    /\ timers' = Append(timers, [ content |-> content, financials |-> financials,
                                  due |-> now + Delay, no |-> Len(UserMessages) + 1,
                                  sentWith |-> financials ])
    /\ renderPending' = TRUE

\* handleSubmit without the blank check
HandleSubmit_NoTrim(input) ==
    /\ Settled
    /\ Len(UserMessages) < MaxSends
    /\ input # <<>>
    /\ handleSendMessage(input)
    /\ UNCHANGED engineVars
    /\ UNCHANGED <<whatIfParams, showWhatIf, now, effectDue>>
    /\ passed' = <<>>
    /\ UNCHANGED overlayVars

\* RightPanel.handleSubmit with input in the chat box: a blank input is ignored
HandleSubmit(input) ==
    /\ Settled
    /\ Len(UserMessages) < MaxSends
    /\ trim(input) # <<>>
    /\ handleSendMessage(input)
    /\ UNCHANGED engineVars
    /\ UNCHANGED <<whatIfParams, showWhatIf, now, effectDue>>
    /\ passed' = <<>>
    /\ UNCHANGED overlayVars

\* The reply to the oldest pending message, generated from snapshot
Reply(snapshot) ==
    /\ timers # <<>>
    /\ now >= Head(timers).due
    /\ \E r \in {generateMockResponse(Self, Includes(Head(timers).content), snapshot)} :
           /\ baseData' = r.self.baseData
           /\ currentParams' = r.self.currentParams
           /\ messages' = Append(messages, [ id |-> now + 1, role |-> "assistant",
                                             content |-> <<r.ret.branch>>,
                                             no |-> Head(timers).no ])
    /\ passed' = <<snapshot>>
    /\ timers' = Tail(timers)
    /\ renderPending' = TRUE
    /\ UNCHANGED <<financials, lastOp, arg, ret, lastApplied, fresh>>
    /\ UNCHANGED <<whatIfParams, showWhatIf, now, effectDue>>
    /\ UNCHANGED overlayVars

\* The timer callback reading the App's latest financials
TimerFire_LatestFinancials == Reply(financials)

\* The setTimeout callback fires, using the financials of its closure; timers
\* of equal delay fire in the order they were set
TimerFire == timers # <<>> /\ Reply(Head(timers).financials)

\* Time passes
Advance ==
    /\ \E t \in Instants : t > now /\ now' = t
    /\ UNCHANGED engineVars
    /\ UNCHANGED <<whatIfParams, showWhatIf, messages, timers, renderPending,
                   effectDue>>
    /\ passed' = <<>>
    /\ UNCHANGED overlayVars

AppNext ==
    \/ Render
    \/ Effect
    \/ ToggleWhatIf
    \/ HandleChange
    \/ ResetToBaseline
    \/ \E input \in ChatInputs : HandleSubmit(input)
    \/ TimerFire
    \/ Advance

AppSpec == Init /\ [][AppNext]_vars

----------------------------------------------------------------------------
(* AgentOverlay *)

Min(a, b) == IF a < b THEN a ELSE b

\* Math.random() * 5 lies in [0, 5)
Increments == 0..(Points(5) - 1)

Active(prev) == { id \in AgentIds : prev[id].status = "active" }

\* tick that never changes a status
tick_NeverIdle(prev, rnd) ==
    [ id \in AgentIds |->
        [ progress |-> IF prev[id].status = "active"
                       THEN Min(Points(100), prev[id].progress + rnd[id])
                       ELSE prev[id].progress,
          status   |-> prev[id].status ] ]

\* tick without Math.min(100, ...)
tick_NoClamp(prev, rnd) ==
    [ id \in AgentIds |->
        [ progress |-> IF prev[id].status = "active"
                       THEN prev[id].progress + rnd[id]
                       ELSE prev[id].progress,
          status   |-> IF prev[id].progress >= Points(100) THEN "idle"
                       ELSE prev[id].status ] ]

\* The updater of the interval callback, prev.map(...); rnd[id] is the draw made
\* for the active agent id. The new status is decided from the previous progress.
tick(prev, rnd) ==
    [ id \in AgentIds |->
        [ progress |-> IF prev[id].status = "active"
                       THEN Min(Points(100), prev[id].progress + rnd[id])
                       ELSE prev[id].progress,
          status   |-> IF prev[id].progress >= Points(100) THEN "idle"
                       ELSE prev[id].status ] ]

\* An interval fires with the draws rnd
TickWith(rnd) ==
    /\ intervals > 0
    /\ agents' = tick(agents, rnd)
    /\ UNCHANGED <<paused, intervals, pausedEffectDue>>
    /\ UNCHANGED <<engineVars, appVars>>

Tick == \E rnd \in [Active(agents) -> Increments] : TickWith(rnd)

\* A tick in which every draw is positive
TickPositive == \E rnd \in [Active(agents) -> Increments \ {0}] : TickWith(rnd)

\* useEffect([paused]) whose previous run is never cleaned up
PausedEffect_NoCleanup ==
    /\ pausedEffectDue
    /\ intervals' = intervals + (IF paused THEN 0 ELSE 1)
    /\ pausedEffectDue' = FALSE
    /\ UNCHANGED <<agents, paused>>
    /\ UNCHANGED <<engineVars, appVars>>

\* useEffect([paused]): the cleanup of the previous run clears its interval,
\* then a new interval is set unless paused
PausedEffect ==
    /\ pausedEffectDue
    /\ LET cleared == IF intervals > 0 THEN 1 ELSE 0
       IN  intervals' = (intervals - cleared) + (IF paused THEN 0 ELSE 1)
    /\ pausedEffectDue' = FALSE
    /\ UNCHANGED <<agents, paused>>
    /\ UNCHANGED <<engineVars, appVars>>

\* The Pause / Resume button: setPaused(!paused). The render and the effect of
\* one click are flushed before the next click is handled.
TogglePause ==
    /\ ~pausedEffectDue
    /\ paused' = ~paused
    /\ pausedEffectDue' = TRUE
    /\ UNCHANGED <<agents, intervals>>
    /\ UNCHANGED <<engineVars, appVars>>

Resume == paused /\ TogglePause

OverlayNext ==
    \/ Tick
    \/ PausedEffect
    \/ TogglePause

OverlaySpec == Init /\ [][OverlayNext]_vars

\* The effect runs, a paused simulation is resumed, and ticks with positive
\* draws keep firing
OverlayLiveSpec ==
    /\ OverlaySpec
    /\ WF_vars(PausedEffect)
    /\ WF_vars(Resume)
    /\ SF_vars(TickPositive)

----------------------------------------------------------------------------
(* Properties *)

\* The snapshot p projects to from the baseline the program starts with
Projected(p) == applyWhatIf(NewEngine, p).ret

\* f is a snapshot applyWhatIf returns for parameters inside the sliders' ranges
FromSliders(f) == \E p \in Params : InSliderRange(p) /\ Projected(p) = f

IsInt(x) == x.d = 1
InRange(x, lo, hi) == IsInt(x) /\ lo <= x.n /\ x.n <= hi

\* C1: applying the all-zero parameters returns a snapshot equal to the
\* baseline in every field.
C1_IdentityScenario ==
    (lastOp = "applyWhatIf" /\ arg = ZeroParams) => ret = baseData

\* burn = sum of the expenses - revenue, and runway = cash / burn when burn > 0, else 99
SnapshotConsistent(f) ==
    /\ f.burn = RSub(SumExpenses(f.expenses), f.revenue)
    /\ f.runway = IF RGt(f.burn, R(0)) THEN RDiv(f.cash, f.burn) ELSE R(99)

\* C2: every snapshot handed out by applyWhatIf or getCurrentFinancials has
\* burn = sum(expenses) - revenue and runway = cash / burn (99 when burn <= 0).
C2_SnapshotInvariant ==
    lastOp \in {"applyWhatIf", "getCurrentFinancials"} => SnapshotConsistent(ret)

\* C3: for snapshots projected from parameters within the slider ranges the
\* total credit score lies in 0..1000.
C3_ScoreRange ==
    (lastOp = "calculateCreditScore" /\ FromSliders(arg)) => InRange(ret.score, 0, 1000)

\* f is a snapshot the callers pass on: the stored baseline or a projection
\* from slider parameters
PassedByCallers(f) == f = BASE_FINANCIALS \/ FromSliders(f)

\* C4: for every snapshot passed to calculateCreditScore each breakdown value
\* lies between 0 and 1000 times its weight (each factor is within [0,1]).
C4_BreakdownRange ==
    (lastOp = "calculateCreditScore" /\ PassedByCallers(arg)) =>
        \A k \in DOMAIN ret.breakdown :
            /\ RLe(R(0), ret.breakdown[k])
            /\ RLe(ret.breakdown[k], RMul(R(1000), weights[k]))

\* C5: when the scored snapshot has burn <= 0 the liquidity index is 1, i.e.
\* breakdown.liquidityIndex = 100.
C5_LiquidityNonPositiveBurn ==
    (lastOp = "calculateCreditScore" /\ PassedByCallers(arg) /\ RLe(arg.burn, R(0))) =>
        ret.breakdown.liquidityIndex = R(100)

\* C6: for snapshots projected from parameters within the slider ranges the
\* five funding-readiness factor scores and the overall score lie in 0..100.
C6_ReadinessRange ==
    (lastOp = "getFundingReadiness" /\ FromSliders(arg)) =>
        /\ InRange(ret.score, 0, 100)
        /\ \A i \in DOMAIN ret.factors : InRange(ret.factors[i].score, 0, 100)

\* C7: getCurrentFinancials returns the stored baseline when the parameters
\* applied last are all zero or none were applied, otherwise the snapshot
\* applyWhatIf yields for the parameters applied last, and it leaves the
\* retained parameters as they were.
C7_CurrentFinancials ==
    [][lastOp' = "getCurrentFinancials" =>
          /\ currentParams' = currentParams
          /\ ret' = IF lastApplied = <<>> \/ lastApplied = <<ZeroParams>>
                    THEN baseData
                    ELSE Projected(lastApplied[1])]_vars

C7_Witness ==
    /\ lastOp = "getCurrentFinancials"
    /\ lastApplied # <<>>
    /\ lastApplied # <<ZeroParams>>
    /\ ret = Projected(lastApplied[1])
    /\ ret # baseData

\* C8: the snapshot applyWhatIf returns for parameters p is the one a newly
\* constructed engine returns for p, whatever calls came before.
C8_HistoryIndependent ==
    lastOp = "applyWhatIf" => ret = Projected(arg)

C8_Witness ==
    /\ lastOp = "applyWhatIf"
    /\ ~fresh
    /\ arg # ZeroParams
    /\ lastApplied = <<arg>>

\* C9: the stored baseline keeps its initial value in every field after any
\* sequence of engine calls.
C9_BaselineUnchanged == baseData = BASE_FINANCIALS

C9_Witness ==
    /\ lastOp = "generateMockResponse"
    /\ arg = "doubleRnD"
    /\ ~fresh
    /\ baseData.expenses = BASE_FINANCIALS.expenses

\* C10: the runway of the snapshot applyWhatIf returns is >= 0 for every
\* choice of parameters.
C10_RunwayNonNegative ==
    lastOp = "applyWhatIf" => RGe(ret.runway, R(0))

C10_Witness ==
    /\ lastOp = "applyWhatIf"
    /\ RLt(ret.burn, R(0))
    /\ ret.runway = R(99)

\* C11: applying {spendChange: 100, hiringRate: 0, revenueGrowth: 0} yields
\* engineering 90000, marketing 36000, sales 24000, operations 14000, aws 4500,
\* burn 123500 and runway 527000/123500.
C11_DoubleSpendScenario ==
    (lastOp = "applyWhatIf" /\ arg = [ZeroParams EXCEPT !.spendChange = 100]) =>
        /\ ret.expenses = [ engineering |-> R(90000), marketing |-> R(36000),
                            sales |-> R(24000), operations |-> R(14000),
                            aws |-> R(4500) ]
        /\ ret.burn = R(123500)
        /\ ret.runway.n * 123500 = 527000 * ret.runway.d
        /\ ret.runway.d > 0

C11_Witness ==
    /\ lastOp = "applyWhatIf"
    /\ arg = [ZeroParams EXCEPT !.spendChange = 100]
    /\ ret.burn = R(123500)

\* C12: for fixed hiringRate >= 0 and revenueGrowth with positive burn at
\* spendChange 0, the snapshot at spendChange 100 has strictly larger burn and
\* a runway no larger than at spendChange 0.
C12_DoubleSpendMonotone ==
    (/\ lastOp = "applyWhatIf"
     /\ arg.spendChange = 100
     /\ arg.hiringRate >= 0
     /\ RGt(Projected([arg EXCEPT !.spendChange = 0]).burn, R(0))) =>
        /\ RGt(ret.burn, Projected([arg EXCEPT !.spendChange = 0]).burn)
        /\ RLe(ret.runway, Projected([arg EXCEPT !.spendChange = 0]).runway)

C12_Witness ==
    /\ lastOp = "applyWhatIf"
    /\ arg.spendChange = 100
    /\ arg.hiringRate > 0
    /\ arg.revenueGrowth # 0
    /\ RGt(Projected([arg EXCEPT !.spendChange = 0]).burn, R(0))
    /\ RLt(ret.runway, Projected([arg EXCEPT !.spendChange = 0]).runway)

\* C20: for all parameters applyWhatIf computes engineering, sales and
\* operations as base * (1 + spendChange/100) plus 60%, 30% and 10% of
\* hiringRate * 15000, marketing as base * (1 + spendChange/100), aws as
\* base * (1 + spendChange/200), revenue = mrr = 45000 * (1 + revenueGrowth/100),
\* growth = 12.5 + 0.4 * revenueGrowth and cash = 527000; the expenses total
\* 85000 + 835 * spendChange + 15000 * hiringRate.
C20_ProjectionFormulas ==
    lastOp = "applyWhatIf" =>
        /\ ret.expenses.engineering =
               Frac(45000 * (100 + arg.spendChange) + 900000 * arg.hiringRate, 100)
        /\ ret.expenses.marketing = Frac(18000 * (100 + arg.spendChange), 100)
        /\ ret.expenses.sales =
               Frac(12000 * (100 + arg.spendChange) + 450000 * arg.hiringRate, 100)
        /\ ret.expenses.operations =
               Frac(7000 * (100 + arg.spendChange) + 150000 * arg.hiringRate, 100)
        /\ ret.expenses.aws = Frac(3000 * (200 + arg.spendChange), 200)
        /\ ret.revenue = Frac(45000 * (100 + arg.revenueGrowth), 100)
        /\ ret.mrr = ret.revenue
        /\ ret.growth = Frac(125 + 4 * arg.revenueGrowth, 10)
        /\ ret.cash = R(527000)
        /\ SumExpenses(ret.expenses) =
               R(85000 + 835 * arg.spendChange + 15000 * arg.hiringRate)

C20_Witness ==
    /\ lastOp = "applyWhatIf"
    /\ arg.spendChange # 0
    /\ arg.hiringRate > 0
    /\ arg.revenueGrowth # 0
    /\ ret.expenses.sales # ret.expenses.marketing
    /\ SumExpenses(ret.expenses) =
           R(85000 + 835 * arg.spendChange + 15000 * arg.hiringRate)

\* C13: scoring the unmodified baseline snapshot yields burnStability 1.0,
\* i.e. breakdown.burnStability = 150.
C13_BaselineBurnStability ==
    (lastOp = "calculateCreditScore" /\ arg = BASE_FINANCIALS) =>
        ret.breakdown.burnStability = R(150)

C13_Witness ==
    /\ lastOp = "calculateCreditScore"
    /\ arg = BASE_FINANCIALS
    /\ arg = baseData
    /\ ret.breakdown.burnStability = R(150)

\* The sum of the seven breakdown values
BreakdownSum(b) ==
    RAdd(RAdd(RAdd(RAdd(RAdd(RAdd(b.revenueGrowth, b.burnStability), b.cashRunway),
                        b.debtRatio), b.paymentReliability), b.profitabilityIndex),
         b.liquidityIndex)

\* C14: for every snapshot the seven breakdown values sum to a value within
\* 7 points of the returned total score.
C14_BreakdownSum ==
    lastOp = "calculateCreditScore" =>
        RLe(MathAbs(RSub(BreakdownSum(ret.breakdown), ret.score)), R(7))

\* C15: the overall funding-readiness score equals the rounded arithmetic mean
\* of the five factor scores returned with it.
C15_RoundedMean ==
    lastOp = "getFundingReadiness" =>
        /\ Len(ret.factors) = 5
        /\ \A i \in 1..5 : IsInt(ret.factors[i].score)
        /\ IsInt(ret.score)
        /\ ret.score.n =
               (2 * ( ret.factors[1].score.n + ret.factors[2].score.n
                    + ret.factors[3].score.n + ret.factors[4].score.n
                    + ret.factors[5].score.n ) + 5) \div 10

C15_Witness ==
    /\ lastOp = "getFundingReadiness"
    /\ ( ret.factors[1].score.n + ret.factors[2].score.n + ret.factors[3].score.n
       + ret.factors[4].score.n + ret.factors[5].score.n ) % 5 \in {3, 4}
    /\ ret.score.n * 5 >
           ret.factors[1].score.n + ret.factors[2].score.n + ret.factors[3].score.n
         + ret.factors[4].score.n + ret.factors[5].score.n

\* C16: the recommendation is the delay-raise text exactly when the overall
\* score is < 70, the strong-position text exactly when it is > 85, and the
\* ready-to-raise text otherwise (70 and 85 included).
C16_RecommendationBands ==
    lastOp = "getFundingReadiness" =>
        /\ (ret.recommendation = "Delay raise by 2 months for better multiple.")
               <=> ret.score.n < 70
        /\ (ret.recommendation = "Strong position - raise at premium valuation.")
               <=> ret.score.n > 85
        /\ (ret.recommendation = "Ready to raise now.")
               <=> (70 <= ret.score.n /\ ret.score.n <= 85)

C16_Witness ==
    /\ lastOp = "getFundingReadiness"
    /\ ret.score = R(70)
    /\ ret.recommendation = "Ready to raise now."

\* C17: the Cash Runway status is good when runway > 9, warning when
\* 6 < runway <= 9 and critical when runway <= 6; the Growth Rate status is
\* good when growth > 15 and warning otherwise.
C17_FactorStatus ==
    lastOp = "getFundingReadiness" =>
        /\ ret.factors[5].name = "Cash Runway"
        /\ ret.factors[5].status =
               IF arg.runway.n > 9 * arg.runway.d THEN "good"
               ELSE IF arg.runway.n > 6 * arg.runway.d THEN "warning"
               ELSE "critical"
        /\ ret.factors[2].name = "Growth Rate"
        /\ ret.factors[2].status =
               IF arg.growth.n > 15 * arg.growth.d THEN "good" ELSE "warning"

C17_Witness ==
    /\ lastOp = "getFundingReadiness"
    /\ ret.factors[5].status = "critical"
    /\ ret.factors[2].status = "good"

\* C18: snapshots whose burn deviates from the baseline burn by +d and by -d
\* get the same burnStability, and burnStability is 0 whenever |d| >= baseline burn.
C18_BurnStabilitySymmetric ==
    lastOp = "calculateCreditScore" =>
        /\ \A p \in Params :
               RAdd(Projected(p).burn, arg.burn) = RMul(R(2), BASE_FINANCIALS.burn) =>
                   /\ Factors(Projected(p)).burnStability = Factors(arg).burnStability
                   /\ Breakdown(Factors(Projected(p))).burnStability
                          = ret.breakdown.burnStability
        /\ RGe(MathAbs(RSub(arg.burn, BASE_FINANCIALS.burn)), BASE_FINANCIALS.burn) =>
               /\ Factors(arg).burnStability = R(0)
               /\ ret.breakdown.burnStability = R(0)

C18_Witness ==
    /\ lastOp = "calculateCreditScore"
    /\ RGt(arg.burn, BASE_FINANCIALS.burn)
    /\ \E p \in Params :
           /\ RAdd(Projected(p).burn, arg.burn) = RMul(R(2), BASE_FINANCIALS.burn)
           /\ Breakdown(Factors(Projected(p))).burnStability = ret.breakdown.burnStability
    /\ RGt(ret.breakdown.burnStability, R(0))

\* C19: applyWhatIf and calculateCreditScore never produce a non-finite
\* result: the projected runway, the total score and every breakdown value
\* are finite for every parameter choice.
C19_FiniteResults ==
    /\ lastOp = "applyWhatIf" => IsFinite(ret.runway)
    /\ lastOp = "calculateCreditScore" =>
           /\ IsFinite(ret.score)
           /\ \A k \in DOMAIN ret.breakdown : IsFinite(ret.breakdown[k])

\* C22: after any number of interval ticks every agent's progress stays within
\* 0..100 and never decreases, and only agents whose status is 'active' at the
\* tick gain progress.
C22_ProgressBounded ==
    [][\A id \in AgentIds :
          /\ agents'[id].progress \in 0..Points(100)
          /\ agents'[id].progress >= agents[id].progress
          /\ agents'[id].progress > agents[id].progress => agents[id].status = "active"
          /\ agents[id].status \in {"thinking", "idle"} =>
                 agents'[id].progress = agents[id].progress]_vars

C22_Witness ==
    /\ agents["treasury"].progress = Points(100)
    /\ agents["accounting"].progress > getAgents["accounting"].progress
    /\ agents["fpna"] = getAgents["fpna"]

\* C28: while the simulation is paused no tick is applied and no interval is
\* running; while it runs exactly one interval is running.
C28_NoTickWhilePaused ==
    /\ [](~pausedEffectDue => intervals = IF paused THEN 0 ELSE 1)
    /\ [](intervals <= 1)
    /\ [][(paused /\ ~pausedEffectDue) => agents' = agents]_vars

C28_Witness ==
    /\ paused
    /\ ~pausedEffectDue
    /\ intervals = 0
    /\ agents # getAgents
    /\ agents["accounting"].status = "active"

\* C29: an agent whose progress is 100 or more does not have status 'active'.
C29_DoneNotActive ==
    \A id \in AgentIds :
        agents[id].progress >= Points(100) => agents[id].status # "active"

\* C30: every agent that starts 'active' eventually reaches progress 100 and
\* status 'idle' and stays idle; an agent never leaves 'idle'.
C30_EventuallyIdle ==
    /\ \A id \in Active(getAgents) :
           <>[](agents[id].progress = Points(100) /\ agents[id].status = "idle")
    /\ [][\A id \in AgentIds :
              agents[id].status = "idle" => agents'[id].status = "idle"]_vars

C30_Witness ==
    /\ \A id \in Active(getAgents) :
           agents[id].progress = Points(100) /\ agents[id].status = "idle"
    /\ paused

\* C23: only a direct applyWhatIf call changes the engine's retained
\* parameters; every other engine method leaves them as they were.
C23_OnlyApplyWhatIfWrites ==
    [][lastOp' # "applyWhatIf" => currentParams' = currentParams]_vars

\* C25: a projected snapshot with burn <= 0 never has a smaller runway than a
\* projected snapshot with burn > 0.
C25_SentinelIsLargest ==
    (lastOp = "applyWhatIf" /\ RGt(ret.burn, R(0))) =>
        \A q \in SliderParams :
            RLe(Projected(q).burn, R(0)) => RGe(Projected(q).runway, ret.runway)

\* C21: every accepted send (non-blank input) appends the user message at once
\* and, when its timer fires, exactly one assistant message; the list is
\* append-only, replies come in the order of their sends, and assistant messages
\* never outnumber user messages, with equality once all timers have fired.
C21_ChatDelivery ==
    /\ [](/\ Len(AssistantMessages) <= Len(UserMessages)
          /\ Len(UserMessages) = Len(AssistantMessages) + Len(timers)
          /\ \A i \in DOMAIN UserMessages :
                 UserMessages[i].no = i /\ trim(UserMessages[i].content) # <<>>
          /\ \A i \in DOMAIN AssistantMessages : AssistantMessages[i].no = i)
    /\ [][/\ Len(messages') >= Len(messages)
          /\ SubSeq(messages', 1, Len(messages)) = messages
          /\ Len(timers') > Len(timers) =>
                 /\ Len(messages') = Len(messages) + 1
                 /\ messages'[Len(messages')].role = "user"
                 /\ messages'[Len(messages')].content = timers'[Len(timers')].content
          /\ Len(timers') < Len(timers) =>
                 /\ Len(messages') = Len(messages) + 1
                 /\ messages'[Len(messages')].role = "assistant"
                 /\ messages'[Len(messages')].no = Head(timers).no
                 /\ timers' = Tail(timers)
          /\ Len(timers') = Len(timers) => messages' = messages]_vars

C21_Witness ==
    /\ Len(messages) = 4
    /\ messages[1].role = "user"
    /\ messages[2].role = "user"
    /\ messages[3].role = "assistant"
    /\ messages[4].role = "assistant"
    /\ messages[1].content # messages[2].content
    /\ timers = <<>>

\* No render, effect or chat timer of the App is outstanding
Quiescent == Settled /\ timers = <<>>

\* C24: whenever the App is quiescent the engine's retained parameters equal
\* the App's whatIfParams.
C24_ParamsInSync == Quiescent => currentParams = whatIfParams

\* C26: the snapshot passed to generateMockResponse when a reply timer fires
\* is the one the App held when the message was sent.
C26_ReplyFromSentSnapshot ==
    [][Len(timers') < Len(timers) =>
           passed' = <<Head(timers).sentWith>>]_vars

C26_Witness ==
    /\ passed # <<>>
    /\ passed # <<financials>>
    /\ messages # <<>>
    /\ messages[Len(messages)].role = "assistant"
    /\ renderPending
    /\ ~showWhatIf

\* C27: all messages in the chat list have pairwise distinct ids, for every
\* timing of the reply timers and of sends made in different milliseconds.
C27_DistinctIds ==
    (\A i, j \in DOMAIN UserMessages : i # j => UserMessages[i].id # UserMessages[j].id)
        => \A i, j \in DOMAIN messages : i # j => messages[i].id # messages[j].id

====
